---- MODULE Spec2Model ----
(***************************************************************************)
(* A model of the retrieval-augmented answering agent of                   *)
(* agents/rag_mm_agent.py, with the domain tables of agents/domain_utils.py *)
(* and the evidence formatters of agents/structured_data_parser.py.        *)
(*                                                                         *)
(* Text is a sequence of pieces whose concatenation is the Python string:  *)
(* data supplied by a caller or a collaborator (queries, attribute values, *)
(* snippets) is kept one character per piece, so that substring tests,     *)
(* lower() and strip() are computed on characters; literals of the code    *)
(* are kept as one piece.  The empty string is the empty sequence.         *)
(* A Python dict read with "in" / get is a function whose DOMAIN is its    *)
(* key set; a value whose Python type the code inspects carries a tag.     *)
(***************************************************************************)
EXTENDS Integers, Sequences, FiniteSets, TLC

VARIABLES
  pc,                    \* position of the running call
  queries,               \* argument: the batch's query strings
  images,                \* argument: the batch's images
  message_histories,     \* argument: the batch's conversation histories
  search_queries,        \* local of batch_generate_response
  image_search_results,  \* local of batch_generate_response
  web_search_results,    \* local of batch_generate_response
  prompts,               \* local of batch_generate_response
  outputs,               \* what the generation collaborator returned
  responses,             \* the value returned to the caller
  session_cache,         \* RAGMMAgent.session_cache
  search_pipeline,       \* the retrieval collaborator handed to __init__
  calls,                 \* number of calls made to each collaborator in this batch
  cache0,                \* session_cache as it was when the batch was entered
  served,                \* requests received so far, over all batches
  arg,                   \* argument of the function under test (function specs)
  ret                    \* its outcome

vars == << pc, queries, images, message_histories, search_queries,
           image_search_results, web_search_results, prompts, outputs,
           responses, session_cache, search_pipeline, calls, cache0, served,
           arg, ret >>

-----------------------------------------------------------------------------
(* Python values and strings *)


\* A Python value whose type and equality the code depends on.
PyInt(n)   == [t |-> "int",   v |-> n, s |-> ""]
PyBool(b)  == [t |-> "bool",  v |-> IF b THEN 1 ELSE 0, s |-> ""]
PyFloat10(n) == [t |-> "float", v |-> n, s |-> ""]   \* the float n/10
PyStr(x)   == [t |-> "str",   v |-> 0, s |-> x]
PyNone     == [t |-> "None",  v |-> 0, s |-> ""]
PyList     == [t |-> "list",  v |-> 0, s |-> ""]     \* some list: unhashable

Return(x) == [kind |-> "return", value |-> x]
Raise(e)  == [kind |-> "raise",  error |-> e]

\* hash(x) succeeds for every value but lists (and dicts, sets).
PyHashable(x) == x.t # "list"

\* x == k for an int key k: int, bool and float compare by numeric value.
PyEqInt(x, k) ==
  \/ x.t \in {"int", "bool"} /\ x.v = k
  \/ x.t = "float" /\ x.v = 10 * k

\* d.get(key, default) on a dict d with int keys: hashing the key comes first.
DictGet(d, key, default) ==
  IF ~PyHashable(key) THEN Raise("TypeError")
  ELSE IF \E k \in DOMAIN d : PyEqInt(key, k)
       THEN Return(d[CHOOSE k \in DOMAIN d : PyEqInt(key, k)])
       ELSE Return(default)

Upper == <<"A","B","C","D","E","F","G","H","I","J","K","L","M",
           "N","O","P","Q","R","S","T","U","V","W","X","Y","Z">>
Lower == <<"a","b","c","d","e","f","g","h","i","j","k","l","m",
           "n","o","p","q","r","s","t","u","v","w","x","y","z">>

LowerChar(c) ==
  IF \E i \in 1..26 : Upper[i] = c
  THEN Lower[CHOOSE i \in 1..26 : Upper[i] = c]
  ELSE c

\* str.lower()
StrLower(s) == [i \in 1..Len(s) |-> LowerChar(s[i])]

\* k in s, for strings
Contains(s, k) ==
  \E i \in 0..(Len(s) - Len(k)) : SubSeq(s, i + 1, i + Len(k)) = k

\* any(f(x) for x in xs) over a list of keywords
AnyKeywordIn(keywords, s) ==
  \E j \in 1..Len(keywords) : Contains(s, keywords[j])

-----------------------------------------------------------------------------
(* agents/domain_utils.py *)

DOMAIN_MAP ==
  [i \in 0..12 |->
     <<"food", "shopping", "landmark", "math_science", "art", "entertainment",
       "events", "nature", "people", "sports", "technology", "transportation",
       "other">>[i + 1]]

QUERY_CATEGORY_MAP ==
  [i \in 0..7 |->
     <<"simple", "simple_w_condition", "comparison", "aggregation", "set",
       "false_premise", "post-processing", "multi-hop">>[i + 1]]

DYNAMISM_MAP ==
  [i \in 0..3 |-> <<"static", "slow-changing", "fast-changing", "real-time">>[i + 1]]

get_domain_name(domain_id) == DictGet(DOMAIN_MAP, domain_id, "other")

get_query_category_name(category_id) ==
  DictGet(QUERY_CATEGORY_MAP, category_id, "simple")

get_dynamism_name(dynamism_id) == DictGet(DYNAMISM_MAP, dynamism_id, "static")

domain_keywords ==
  << [domain |-> "food", keywords |-> <<
        <<"f","o","o","d">>, <<"d","i","s","h">>, <<"m","e","a","l">>,
        <<"r","e","c","i","p","e">>, <<"i","n","g","r","e","d","i","e","n","t">>,
        <<"c","u","i","s","i","n","e">>, <<"e","a","t">>, <<"d","r","i","n","k">>,
        <<"c","o","o","k">>, <<"b","a","k","e">>>>],
     [domain |-> "shopping", keywords |-> <<
        <<"p","r","o","d","u","c","t">>, <<"p","r","i","c","e">>, <<"b","r","a","n","d">>,
        <<"b","u","y">>, <<"p","u","r","c","h","a","s","e">>, <<"c","o","s","t">>,
        <<"s","t","o","r","e">>, <<"s","h","o","p">>, <<"m","a","l","l">>>>],
     [domain |-> "landmark", keywords |-> <<
        <<"l","a","n","d","m","a","r","k">>, <<"b","u","i","l","d","i","n","g">>,
        <<"m","o","n","u","m","e","n","t">>, <<"m","u","s","e","u","m">>,
        <<"t","o","u","r","i","s","t">>, <<"l","o","c","a","t","i","o","n">>,
        <<"p","l","a","c","e">>, <<"v","i","s","i","t">>>>],
     [domain |-> "math_science", keywords |-> <<
        <<"m","a","t","h">>, <<"s","c","i","e","n","c","e">>, <<"f","o","r","m","u","l","a">>,
        <<"e","q","u","a","t","i","o","n">>, <<"c","a","l","c","u","l","a","t","e">>,
        <<"p","h","y","s","i","c","s">>, <<"c","h","e","m","i","s","t","r","y">>,
        <<"b","i","o","l","o","g","y">>>>],
     [domain |-> "art", keywords |-> <<
        <<"a","r","t">>, <<"p","a","i","n","t","i","n","g">>,
        <<"s","c","u","l","p","t","u","r","e">>, <<"m","u","s","e","u","m">>,
        <<"a","r","t","i","s","t">>, <<"g","a","l","l","e","r","y">>, <<"d","r","a","w">>,
        <<"c","r","e","a","t","i","v","e">>>>],
     [domain |-> "entertainment", keywords |-> <<
        <<"m","o","v","i","e">>, <<"f","i","l","m">>, <<"s","e","r","i","e","s">>,
        <<"s","h","o","w">>, <<"a","c","t","o","r">>, <<"a","c","t","r","e","s","s">>,
        <<"d","i","r","e","c","t","o","r">>, <<"w","a","t","c","h">>>>],
     [domain |-> "events", keywords |-> <<
        <<"e","v","e","n","t">>, <<"c","o","n","f","e","r","e","n","c","e">>,
        <<"m","e","e","t","i","n","g">>, <<"f","e","s","t","i","v","a","l">>,
        <<"c","o","n","c","e","r","t">>, <<"e","x","h","i","b","i","t","i","o","n">>,
        <<"c","e","r","e","m","o","n","y">>>>],
     [domain |-> "nature", keywords |-> <<
        <<"n","a","t","u","r","e">>, <<"p","l","a","n","t">>, <<"a","n","i","m","a","l">>,
        <<"f","l","o","w","e","r">>, <<"t","r","e","e">>,
        <<"l","a","n","d","s","c","a","p","e">>, <<"o","u","t","d","o","o","r">>,
        <<"e","n","v","i","r","o","n","m","e","n","t">>, <<"b","i","n">>,
        <<"r","e","c","y","c","l","e">>, <<"b","a","t","t","e","r","y">>>>],
     [domain |-> "people", keywords |-> <<
        <<"p","e","r","s","o","n">>, <<"p","e","o","p","l","e">>, <<"m","a","n">>,
        <<"w","o","m","a","n">>, <<"c","h","i","l","d">>, <<"f","a","m","i","l","y">>,
        <<"g","r","o","u","p">>>>],
     [domain |-> "sports", keywords |-> <<
        <<"s","p","o","r","t">>, <<"g","a","m","e">>, <<"t","e","a","m">>,
        <<"p","l","a","y","e","r">>, <<"m","a","t","c","h">>,
        <<"c","o","m","p","e","t","i","t","i","o","n">>, <<"a","t","h","l","e","t","e">>,
        <<"r","a","c","e">>>>],
     [domain |-> "technology", keywords |-> <<
        <<"t","e","c","h","n","o","l","o","g","y">>, <<"d","e","v","i","c","e">>,
        <<"c","o","m","p","u","t","e","r">>, <<"p","h","o","n","e">>,
        <<"g","a","d","g","e","t">>, <<"t","e","c","h">>, <<"d","i","g","i","t","a","l">>,
        <<"b","a","t","t","e","r","y">>>>],
     [domain |-> "transportation", keywords |-> <<
        <<"c","a","r">>, <<"v","e","h","i","c","l","e">>, <<"t","r","a","i","n">>,
        <<"b","u","s">>, <<"t","r","a","n","s","p","o","r","t","a","t","i","o","n">>,
        <<"t","r","a","v","e","l">>, <<"t","r","i","p">>, <<"j","o","u","r","n","e","y">>>>] >>

\* The for loop of infer_domain_from_query from entry i of domain_keywords on:
\* the first domain with a keyword in the lowered query, else "other".
RECURSIVE InferFrom(_, _)
InferFrom(i, query_lower) ==
  IF i > Len(domain_keywords) THEN "other"
  ELSE IF AnyKeywordIn(domain_keywords[i].keywords, query_lower)
       THEN domain_keywords[i].domain
       ELSE InferFrom(i + 1, query_lower)

\* A plausible slip: the scan keeps going and the last matching domain wins.
RECURSIVE InferLastFrom(_, _, _)
InferLastFrom(i, query_lower, found) ==
  IF i > Len(domain_keywords) THEN found
  ELSE InferLastFrom(i + 1, query_lower,
         IF AnyKeywordIn(domain_keywords[i].keywords, query_lower)
         THEN domain_keywords[i].domain ELSE found)

infer_domain_from_query_LastWins(query) == InferLastFrom(1, StrLower(query), "other")

infer_domain_from_query(query) == InferFrom(1, StrLower(query))

-----------------------------------------------------------------------------
(* agents/structured_data_parser.py                                         *)
(*                                                                          *)
(* A mapping handed to a formatter is the sequence of its items             *)
(* [k |-> key, v |-> value] in insertion order, keys being strings.         *)

StrV(t)  == [kind |-> "str",  text |-> t]
ListV(e) == [kind |-> "list", elems |-> e]     \* a list of strings
DictV(i) == [kind |-> "dict", items |-> i]     \* a nested mapping
NoneV    == [kind |-> "None"]

\* Attribute names the formatters look up, as strings.
k_name == <<"n","a","m","e">>
k_dish_name == <<"d","i","s","h","_","n","a","m","e">>
k_food_type == <<"f","o","o","d","_","t","y","p","e">>
k_type == <<"t","y","p","e">>
k_ingredients == <<"i","n","g","r","e","d","i","e","n","t","s">>
k_nutrition == <<"n","u","t","r","i","t","i","o","n">>
k_cooking_method == <<"c","o","o","k","i","n","g","_","m","e","t","h","o","d">>
k_preparation == <<"p","r","e","p","a","r","a","t","i","o","n">>
k_cuisine == <<"c","u","i","s","i","n","e">>
k_origin == <<"o","r","i","g","i","n">>
k_product_name == <<"p","r","o","d","u","c","t","_","n","a","m","e">>
k_brand == <<"b","r","a","n","d">>
k_manufacturer == <<"m","a","n","u","f","a","c","t","u","r","e","r">>
k_price == <<"p","r","i","c","e">>
k_cost == <<"c","o","s","t">>
k_category == <<"c","a","t","e","g","o","r","y">>
k_specifications == <<"s","p","e","c","i","f","i","c","a","t","i","o","n","s">>
k_specs == <<"s","p","e","c","s">>
k_address == <<"a","d","d","r","e","s","s">>
k_building_type == <<"b","u","i","l","d","i","n","g","_","t","y","p","e">>
k_architectural_style == <<"a","r","c","h","i","t","e","c","t","u","r","a","l","_","s","t","y","l","e">>
k_floor_count == <<"f","l","o","o","r","_","c","o","u","n","t">>
k_architect == <<"a","r","c","h","i","t","e","c","t">>
k_completion_date == <<"c","o","m","p","l","e","t","i","o","n","_","d","a","t","e">>
k_location == <<"l","o","c","a","t","i","o","n">>
k_rules == <<"r","u","l","e","s">>
k_policy == <<"p","o","l","i","c","y">>
k_recyclable == <<"r","e","c","y","c","l","a","b","l","e">>
k_can_recycle == <<"c","a","n","_","r","e","c","y","c","l","e">>
k_materials == <<"m","a","t","e","r","i","a","l","s">>
k_birth_date == <<"b","i","r","t","h","_","d","a","t","e">>
k_born == <<"b","o","r","n">>
k_occupation == <<"o","c","c","u","p","a","t","i","o","n">>
k_nationality == <<"n","a","t","i","o","n","a","l","i","t","y">>
k_achievements == <<"a","c","h","i","e","v","e","m","e","n","t","s">>
k_known_for == <<"k","n","o","w","n","_","f","o","r">>
k_disposal == <<"d","i","s","p","o","s","a","l">>
k_recycling == <<"r","e","c","y","c","l","i","n","g">>
k_environmental_impact == <<"e","n","v","i","r","o","n","m","e","n","t","a","l","_","i","m","p","a","c","t">>
k_image == <<"i","m","a","g","e">>
k_image_size == <<"i","m","a","g","e","_","s","i","z","e">>
k_coordinates == <<"c","o","o","r","d","i","n","a","t","e","s">>
k_mapframe_wikidata == <<"m","a","p","f","r","a","m","e","_","w","i","k","i","d","a","t","a">>

entity_keywords ==
  << [domain |-> "food", keywords |-> <<
        <<"f","o","o","d">>, <<"d","i","s","h">>, <<"m","e","a","l">>, <<"r","e","c","i","p","e">>, <<"i","n","g","r","e","d","i","e","n","t">>, <<"c","u","i","s","i","n","e">>>>],
     [domain |-> "shopping", keywords |-> <<
        <<"p","r","o","d","u","c","t">>, <<"p","r","i","c","e">>, <<"b","r","a","n","d">>, <<"b","u","y">>, <<"s","t","o","r","e">>>>],
     [domain |-> "landmark", keywords |-> <<
        <<"b","u","i","l","d","i","n","g">>, <<"a","r","c","h","i","t","e","c","t">>, <<"a","d","d","r","e","s","s">>, <<"l","o","c","a","t","i","o","n">>>>],
     [domain |-> "people", keywords |-> <<
        <<"p","e","r","s","o","n">>, <<"b","o","r","n">>, <<"b","i","r","t","h">>>>],
     [domain |-> "nature", keywords |-> <<
        <<"r","e","c","y","c","l","e">>, <<"b","a","t","t","e","r","y">>, <<"b","i","n">>>>] >>

Has(d, key) == \E i \in 1..Len(d) : d[i].k = key

\* d.get(key, default)
Get(d, key, default) ==
  IF Has(d, key) THEN d[CHOOSE i \in 1..Len(d) : d[i].k = key].v ELSE default

\* {key: value, **d}: key keeps the first position, a later value replaces it
PutFirst(key, value, d) ==
  IF Has(d, key)
  THEN <<[k |-> key, v |-> Get(d, key, value)]>>
         \o SelectSeq(d, LAMBDA it : it.k # key)
  ELSE <<[k |-> key, v |-> value]>> \o d

\* bool(v)
Truthy(v) ==
  CASE v.kind = "str"  -> v.text # <<>>
    [] v.kind = "list" -> v.elems # <<>>
    [] v.kind = "dict" -> v.items # <<>>
    [] OTHER -> FALSE

\* sep.join(strs)
RECURSIVE Join(_, _)
Join(sep, strs) ==
  IF Len(strs) = 0 THEN <<>>
  ELSE IF Len(strs) = 1 THEN strs[1]
  ELSE strs[1] \o sep \o Join(sep, Tail(strs))

Quote(t) == <<"'">> \o t \o <<"'">>

\* repr(v)
RECURSIVE Repr(_)
Repr(v) ==
  CASE v.kind = "str"  -> Quote(v.text)
    [] v.kind = "list" ->
         <<"[">> \o Join(<<",", " ">>, [i \in 1..Len(v.elems) |-> Quote(v.elems[i])])
                 \o <<"]">>
    [] v.kind = "dict" ->
         <<"{">> \o Join(<<",", " ">>,
                     [i \in 1..Len(v.items) |->
                        Quote(v.items[i].k) \o <<":", " ">> \o Repr(v.items[i].v)])
                 \o <<"}">>
    [] OTHER -> <<"N","o","n","e">>

\* str(v), and {v} in an f-string
Str(v) == IF v.kind = "str" THEN v.text ELSE Repr(v)

StartsWith(s, p) == Len(s) >= Len(p) /\ SubSeq(s, 1, Len(p)) = p

\* s.replace(old, ""), for a two-character old
RECURSIVE Remove2(_, _)
Remove2(s, old) ==
  IF Len(s) < 2 THEN s
  ELSE IF SubSeq(s, 1, 2) = old THEN Remove2(SubSeq(s, 3, Len(s)), old)
  ELSE <<s[1]>> \o Remove2(Tail(s), old)

\* s.split(sep)[0]
RECURSIVE SplitFirst(_, _)
SplitFirst(s, sep) ==
  IF Len(s) = 0 \/ StartsWith(s, sep) THEN <<>>
  ELSE <<s[1]>> \o SplitFirst(Tail(s), sep)

IsSpace(c) == c \in {" ", "\n", "\t", "\r"}

RECURSIVE RStripSet(_, _)
RStripSet(s, C) ==
  IF Len(s) > 0 /\ s[Len(s)] \in C THEN RStripSet(SubSeq(s, 1, Len(s) - 1), C) ELSE s

RECURSIVE LStripSet(_, _)
LStripSet(s, C) ==
  IF Len(s) > 0 /\ s[1] \in C THEN LStripSet(Tail(s), C) ELSE s

\* s.strip()
Strip(s) == LStripSet(RStripSet(s, {" ", "\n", "\t", "\r"}), {" ", "\n", "\t", "\r"})

\* s.replace("[[", "").replace("]]", "")
Unlink(s) == Remove2(Remove2(s, <<"[","[">>), <<"]","]">>)

\* f"{label}{value}\n" when value is truthy, nothing otherwise
OptLine(label, value) ==
  IF Truthy(value) THEN <<label>> \o Str(value) \o <<"\n">> ELSE <<>>

\* "Specifications:" block of parse_shopping and parse_technology
SpecificationLines(specifications) ==
  IF ~Truthy(specifications) THEN <<>>
  ELSE <<"Specifications:\n">> \o
       (IF specifications.kind = "dict"
        THEN Join(<<>>, [i \in 1..Len(specifications.items) |->
                <<"  - ">> \o specifications.items[i].k \o <<":", " ">>
                  \o Str(specifications.items[i].v) \o <<"\n">>])
        ELSE <<"  - ">> \o Str(specifications) \o <<"\n">>)

\* ', '.join(xs) for a list, f"{xs}" otherwise
ListLine(label, value) ==
  IF ~Truthy(value) THEN <<>>
  ELSE <<label>> \o (IF value.kind = "list" THEN Join(<<",", " ">>, value.elems)
                     ELSE Str(value)) \o <<"\n">>

parse_food(data) ==
  LET name == Get(data, k_name, Get(data, k_dish_name, StrV(<<"Unknown dish">>)))
      food_type == Get(data, k_food_type, Get(data, k_type, StrV(<<>>)))
      ingredients == Get(data, k_ingredients, ListV(<<>>))
      nutrition == Get(data, k_nutrition, DictV(<<>>))
      cooking_method == Get(data, k_cooking_method, Get(data, k_preparation, StrV(<<>>)))
      cuisine == Get(data, k_cuisine, Get(data, k_origin, StrV(<<>>)))
      r1 == <<"<Food>\n", "Name: ">> \o Str(name) \o <<"\n">>
              \o OptLine("Type: ", food_type)
              \o ListLine("Ingredients: ", ingredients)
      r2 == IF ~Truthy(nutrition) THEN r1
            ELSE IF nutrition.kind = "dict"
            THEN RStripSet(r1 \o <<"Nutrition:", " ">> \o
                   Join(<<>>, [i \in 1..Len(nutrition.items) |->
                     nutrition.items[i].k \o <<":", " ">>
                       \o Str(nutrition.items[i].v) \o <<",", " ">>]),
                   {",", " "}) \o <<"\n">>
            ELSE r1 \o <<"Nutrition:", " ">> \o Str(nutrition) \o <<"\n">>
  IN Return(r2 \o OptLine("Cooking Method: ", cooking_method)
               \o OptLine("Cuisine: ", cuisine) \o <<"</Food>">>)

parse_shopping(data) ==
  LET name == Get(data, k_name, Get(data, k_product_name, StrV(<<"Unknown product">>)))
      brand == Get(data, k_brand, Get(data, k_manufacturer, StrV(<<>>)))
      price == Get(data, k_price, Get(data, k_cost, StrV(<<>>)))
      category == Get(data, k_category, Get(data, k_type, StrV(<<>>)))
      specifications == Get(data, k_specifications, Get(data, k_specs, DictV(<<>>)))
  IN Return(<<"<Product>\n", "Name: ">> \o Str(name) \o <<"\n">>
              \o OptLine("Brand: ", brand) \o OptLine("Price: ", price)
              \o OptLine("Category: ", category)
              \o SpecificationLines(specifications) \o <<"</Product>">>)

\* A landmark field cleaned with value.replace("[[", "").replace("]]", ""):
\* only a string has replace.
UnlinkedLine(label, value) ==
  IF ~Truthy(value) THEN Return(<<>>)
  ELSE IF value.kind # "str" THEN Raise("AttributeError")
  ELSE Return(<<label>> \o Unlink(value.text) \o <<"\n">>)

parse_landmark(data) ==
  LET name0 == Get(data, k_name, StrV(<<"Unknown landmark">>))
      address == Get(data, k_address, StrV(<<>>))
      building_type == Get(data, k_building_type, StrV(<<>>))
      architectural_style == Get(data, k_architectural_style, StrV(<<>>))
      floor_count == Get(data, k_floor_count, StrV(<<>>))
      architect == Get(data, k_architect, StrV(<<>>))
      completion_date == Get(data, k_completion_date, StrV(<<>>))
      \* '{{' in name
      templated ==
        CASE name0.kind = "str"  -> Contains(name0.text, <<"{","{">>)
          [] name0.kind = "list" -> \E i \in 1..Len(name0.elems) : name0.elems[i] = <<"{","{">>
          [] name0.kind = "dict" -> Has(name0.items, <<"{","{">>)
          [] OTHER -> FALSE
      name == IF name0.kind = "str" /\ templated
              THEN SplitFirst(name0.text, <<"<","b","r">>) ELSE Str(name0)
      addressLine ==
        IF ~Truthy(address) THEN Return(<<>>)
        ELSE IF address.kind # "str" THEN Raise("AttributeError")
        ELSE Return(<<"Address: ">>
               \o SplitFirst(Unlink(address.text), <<"<","b","r">>) \o <<"\n">>)
      typeLine == UnlinkedLine("Type: ", building_type)
      styleLine == UnlinkedLine("Style: ", architectural_style)
      architectLine == UnlinkedLine("Architect: ", architect)
  IN IF name0.kind = "None" THEN Raise("TypeError")
     ELSE IF name0.kind \in {"list", "dict"} /\ templated THEN Raise("AttributeError")
     ELSE IF addressLine.kind = "raise" THEN addressLine
     ELSE IF typeLine.kind = "raise" THEN typeLine
     ELSE IF styleLine.kind = "raise" THEN styleLine
     ELSE IF architectLine.kind = "raise" THEN architectLine
     ELSE Return(<<"<Landmark>\n", "Name: ">> \o name \o <<"\n">>
                   \o addressLine.value \o typeLine.value \o styleLine.value
                   \o OptLine("Floors: ", floor_count) \o architectLine.value
                   \o OptLine("Completed: ", completion_date) \o <<"</Landmark>">>)

parse_nature(data) ==
  LET name == Get(data, k_name, StrV(<<"Unknown">>))
      type_info == Get(data, k_type, StrV(<<>>))
      location == Get(data, k_location, StrV(<<>>))
      rules == Get(data, k_rules, Get(data, k_policy, StrV(<<>>)))
      recyclable == Get(data, k_recyclable, Get(data, k_can_recycle, StrV(<<>>)))
      materials == Get(data, k_materials, StrV(<<>>))
  IN Return(<<"<Nature>\n", "Name: ">> \o Str(name) \o <<"\n">>
              \o OptLine("Type: ", type_info) \o OptLine("Location: ", location)
              \o OptLine("Rules: ", rules) \o OptLine("Recyclable: ", recyclable)
              \o ListLine("Materials: ", materials) \o <<"</Nature>">>)

parse_people(data) ==
  LET name == Get(data, k_name, StrV(<<"Unknown person">>))
      birth_date == Get(data, k_birth_date, Get(data, k_born, StrV(<<>>)))
      occupation == Get(data, k_occupation, StrV(<<>>))
      nationality == Get(data, k_nationality, StrV(<<>>))
      achievements == Get(data, k_achievements, Get(data, k_known_for, StrV(<<>>)))
  IN Return(<<"<Person>\n", "Name: ">> \o Str(name) \o <<"\n">>
              \o OptLine("Born: ", birth_date) \o OptLine("Occupation: ", occupation)
              \o OptLine("Nationality: ", nationality)
              \o OptLine("Known for: ", achievements) \o <<"</Person>">>)

parse_technology(data) ==
  LET name == Get(data, k_name, StrV(<<"Unknown device">>))
      type_info == Get(data, k_type, Get(data, k_category, StrV(<<>>)))
      brand == Get(data, k_brand, Get(data, k_manufacturer, StrV(<<>>)))
      specifications == Get(data, k_specifications, Get(data, k_specs, DictV(<<>>)))
      disposal == Get(data, k_disposal, Get(data, k_recycling, StrV(<<>>)))
      environmental == Get(data, k_environmental_impact, StrV(<<>>))
  IN Return(<<"<Technology>\n", "Name: ">> \o Str(name) \o <<"\n">>
              \o OptLine("Type: ", type_info) \o OptLine("Brand: ", brand)
              \o SpecificationLines(specifications)
              \o OptLine("Disposal: ", disposal)
              \o OptLine("Environmental Impact: ", environmental)
              \o <<"</Technology>">>)

\* value.replace("[[", "").replace("]]", "").replace("{{", "").replace("}}", "")
Unmark(s) == Remove2(Remove2(Unlink(s), <<"{","{">>), <<"}","}">>)

\* The lines parse_generic emits for the entries of a nested mapping.
RECURSIVE NestedLines(_)
NestedLines(items) ==
  IF Len(items) = 0 THEN <<>>
  ELSE LET v == items[1].v IN
       (IF v.kind = "str" /\ (v.text = <<>> \/ StartsWith(v.text, <<"h","t","t","p">>))
        THEN <<>>
        ELSE <<"  - ">> \o items[1].k \o <<":", " ">> \o Str(v) \o <<"\n">>)
       \o NestedLines(Tail(items))

\* The lines parse_generic emits for one item of data.
GenericLines(key, value0) ==
  LET value == IF value0.kind = "str" THEN StrV(Unmark(value0.text)) ELSE value0 IN
  IF key \in {k_image, k_image_size, k_coordinates, k_mapframe_wikidata} THEN <<>>
  ELSE IF value.kind = "str" /\
          (\/ value.text = <<>>
           \/ StartsWith(value.text, <<"h","t","t","p">>)
           \/ Contains(value.text, <<"U","R","L","|">>)) THEN <<>>
  ELSE IF value.kind = "dict"
       THEN key \o <<":\n">> \o NestedLines(value.items)
  ELSE IF value.kind = "list"
       THEN key \o <<":", " ">> \o Join(<<",", " ">>, value.elems) \o <<"\n">>
  ELSE key \o <<":", " ">> \o Str(value) \o <<"\n">>

parse_generic(data) ==
  Return(<<"<Info>\n">>
           \o Join(<<>>, [i \in 1..Len(data) |-> GenericLines(data[i].k, data[i].v)])
           \o <<"</Info>">>)

\* StructuredDataParser.parse: the dispatch table, parse_generic by default
parse(domain, data) ==
  CASE domain = "food" -> parse_food(data)
    [] domain = "shopping" -> parse_shopping(data)
    [] domain = "landmark" -> parse_landmark(data)
    [] domain = "nature" -> parse_nature(data)
    [] domain = "people" -> parse_people(data)
    [] domain = "technology" -> parse_technology(data)
    [] OTHER -> parse_generic(data)

-----------------------------------------------------------------------------
(* agents/rag_mm_agent.py                                                   *)
(*                                                                          *)
(* A history message is a record whose DOMAIN is the set of keys the dict   *)
(* has ("role", "content", "session_id").  Its content is a string, a list  *)
(* of parts or a dict of annotations.                                       *)

ContentStr(t)   == [kind |-> "str",  text |-> t]
ContentList(ps) == [kind |-> "list", parts |-> ps]
ContentDict(d)  == [kind |-> "dict", items |-> d]  \* items [k |-> name, v |-> value]

\* repr of an annotation value
PyRepr(x) ==
  CASE x.t = "int"   -> <<ToString(x.v)>>
    [] x.t = "bool"  -> IF x.v = 1 THEN <<"True">> ELSE <<"False">>
    [] x.t = "float" -> <<ToString(x.v \div 10), ".", ToString(x.v % 10)>>
    [] x.t = "str"   -> <<"'", x.s, "'">>
    [] x.t = "list"  -> <<"[", "...", "]">>
    [] OTHER -> <<"None">>

\* str(content) of a dict content
StrOfDict(items) ==
  <<"{">> \o Join(<<",", " ">>,
                [i \in 1..Len(items) |->
                   <<"'", items[i].k, "'", ":", " ">> \o PyRepr(items[i].v)])
          \o <<"}">>

Min(a, b) == IF a <= b THEN a ELSE b

\* The loop of extract_session_info over one history, from 0-based index i:
\* every user message at an even index whose content is a dict with a "domain"
\* key sets the domain.
RECURSIVE HistoryDomainFrom(_, _, _)
HistoryDomainFrom(history, i, domain) ==
  IF i >= Len(history) THEN Return(domain)
  ELSE
    LET message == history[i + 1]
        isUser == "role" \in DOMAIN message /\ message.role = "user"
        content == IF "content" \in DOMAIN message THEN message.content
                   ELSE ContentStr(<<>>)
        tagged == /\ i % 2 = 0 /\ isUser /\ content.kind = "dict"
                  /\ \E j \in 1..Len(content.items) : content.items[j].k = "domain"
        name == get_domain_name(
                  content.items[CHOOSE j \in 1..Len(content.items) :
                                   content.items[j].k = "domain"].v)
    IN IF ~tagged THEN HistoryDomainFrom(history, i + 1, domain)
       ELSE IF name.kind = "raise" THEN name
       ELSE HistoryDomainFrom(history, i + 1, name.value)

\* extract_session_info: one info per history, or the exception that ends it
RECURSIVE extract_session_info(_)
extract_session_info(histories) ==
  IF Len(histories) = 0 THEN Return(<<>>)
  ELSE
    LET d == HistoryDomainFrom(histories[1], 0, "other")
        rest == extract_session_info(Tail(histories))
    IN IF d.kind = "raise" THEN d
       ELSE IF rest.kind = "raise" THEN rest
       ELSE Return(<<[domain |-> d.value, is_multi_turn |-> Len(histories[1]) > 0]>>
                     \o rest.value)

domain_prefixes(domain) ==
  CASE domain = "food" -> <<"f","o","o","d"," ","d","i","s","h"," ">>
    [] domain = "shopping" -> <<"p","r","o","d","u","c","t"," ","i","t","e","m"," ">>
    [] domain = "landmark" ->
         <<"l","a","n","d","m","a","r","k"," ","b","u","i","l","d","i","n","g"," ">>
    [] domain = "nature" ->
         <<"n","a","t","u","r","e"," ","l","a","n","d","s","c","a","p","e"," ",
           "r","e","c","y","c","l","i","n","g"," ","b","i","n"," ">>
    [] domain = "people" -> <<"p","e","r","s","o","n"," ","p","e","o","p","l","e"," ">>
    [] domain = "sports" -> <<"s","p","o","r","t","s"," ","g","a","m","e"," ">>
    [] domain = "technology" ->
         <<"t","e","c","h","n","o","l","o","g","y"," ","d","e","v","i","c","e"," ",
           "b","a","t","t","e","r","y"," ">>
    [] domain = "transportation" ->
         <<"v","e","h","i","c","l","e"," ","t","r","a","n","s","p","o","r","t",
           "a","t","i","o","n"," ">>
    [] OTHER -> <<>>

_enhance_query(query, domain) == domain_prefixes(domain) \o query

\* A plausible slip: the domain of the history used as it is, "other" included.
prepare_search_queries_KeepOther(qs, imgs, histories) ==
  LET session_info == extract_session_info(histories) IN
  IF session_info.kind = "raise" THEN session_info
  ELSE
    LET n == Min(Len(qs), Min(Len(imgs), Len(session_info.value))) IN
    Return([i \in 1..n |-> _enhance_query(qs[i], session_info.value[i].domain)])

\* prepare_search_queries: one enhanced query per zip(queries, images, info)
prepare_search_queries(qs, imgs, histories) ==
  LET session_info == extract_session_info(histories) IN
  IF session_info.kind = "raise" THEN session_info
  ELSE
    LET n == Min(Len(qs), Min(Len(imgs), Len(session_info.value))) IN
    Return([i \in 1..n |->
      LET info == session_info.value[i]
          domain == IF info.domain = "other" THEN infer_domain_from_query(qs[i])
                    ELSE info.domain
      IN _enhance_query(qs[i], domain)])

\* _infer_entity_domain: the if/elif chain over str(entity_attrs).lower()
RECURSIVE EntityDomainFrom(_, _)
EntityDomainFrom(i, attrs_str) ==
  IF i > Len(entity_keywords) THEN "other"
  ELSE IF AnyKeywordIn(entity_keywords[i].keywords, attrs_str)
       THEN entity_keywords[i].domain
       ELSE EntityDomainFrom(i + 1, attrs_str)

_infer_entity_domain(entity_attrs) ==
  EntityDomainFrom(1, StrLower(Repr(DictV(entity_attrs))))

\* if parsed_entity: parsed_result += parsed_entity + "\n\n"
ParsedEntityBlock(parsed) ==
  IF parsed.kind = "raise" THEN parsed
  ELSE IF parsed.value = <<>> THEN Return(<<>>)
  ELSE Return(parsed.value \o <<"\n", "\n">>)

\* The block of one entity of a search result
EntityBlock(entity) ==
  LET entity_name == IF "entity_name" \in DOMAIN entity THEN entity.entity_name
                     ELSE StrV(<<"Unknown">>)
      attrs0 == IF "entity_attributes" \in DOMAIN entity
                THEN entity.entity_attributes ELSE DictV(<<>>)
      entity_attrs == IF attrs0.kind = "None" THEN <<>> ELSE attrs0.items
      domain == _infer_entity_domain(entity_attrs)
  IN ParsedEntityBlock(parse(domain, PutFirst(k_name, entity_name, entity_attrs)))

\* Concatenation of a sequence of outcomes: the first exception, else the text
RECURSIVE ConcatAll(_)
ConcatAll(rs) ==
  IF Len(rs) = 0 THEN Return(<<>>)
  ELSE IF rs[1].kind = "raise" THEN rs[1]
  ELSE LET rest == ConcatAll(Tail(rs)) IN
       IF rest.kind = "raise" THEN rest ELSE Return(rs[1].value \o rest.value)

\* All outcomes of a sequence, or the first exception
RECURSIVE Collect(_)
Collect(rs) ==
  IF Len(rs) = 0 THEN Return(<<>>)
  ELSE IF rs[1].kind = "raise" THEN rs[1]
  ELSE LET rest == Collect(Tail(rs)) IN
       IF rest.kind = "raise" THEN rest ELSE Return(<<rs[1].value>> \o rest.value)

\* formatted_results.append(parsed_result.strip())
StrippedResult(parsed_result) ==
  IF parsed_result.kind = "raise" THEN parsed_result
  ELSE Return(Strip(parsed_result.value))

\* The evidence block of one item's image hits
ImageContext(result_list) ==
  IF result_list = <<>> THEN Return(<<>>)
  ELSE
    LET perResult ==
          [r \in 1..Len(result_list) |->
             LET entities == IF "entities" \in DOMAIN result_list[r]
                             THEN result_list[r].entities ELSE <<>>
             IN ConcatAll([e \in 1..Len(entities) |-> EntityBlock(entities[e])])]
    IN StrippedResult(ConcatAll(perResult))

process_image_search_results(search_results) ==
  Collect([i \in 1..Len(search_results) |-> ImageContext(search_results[i])])

\* The evidence block of one item's web hits
WebContext(result_list) ==
  IF result_list = <<>> THEN <<>>
  ELSE Strip(Join(<<>>,
         [r \in 1..Len(result_list) |->
            LET result == result_list[r] IN
            IF "page_snippet" \notin DOMAIN result \/ result.page_snippet = <<>>
            THEN <<>>
            ELSE <<"From ">>
                   \o (IF "page_name" \in DOMAIN result THEN result.page_name
                       ELSE <<"Unknown Source">>)
                   \o <<":", "\n">> \o result.page_snippet \o <<"\n", "\n">>]))

process_web_search_results(search_results) ==
  [i \in 1..Len(search_results) |-> WebContext(search_results[i])]

\* Optional list arguments: None, or a list
PyNoneList == [kind |-> "None", elems |-> <<>>]
PyListOf(xs) == [kind |-> "list", elems |-> xs]

system_prompt ==
  <<"You are a helpful visual assistant. Answer questions about the image accurately and concisely based on what you can see and the provided context. If you don't know the answer, say 'I don't know'.">>

\* text_parts of _process_message_history: the text of every dict part
\* whose type is "text"
RECURSIVE TextParts(_)
TextParts(parts) ==
  IF Len(parts) = 0 THEN <<>>
  ELSE (IF "type" \in DOMAIN parts[1] /\ parts[1].type = "text"
        THEN <<IF "text" \in DOMAIN parts[1] THEN parts[1].text ELSE <<>>>>
        ELSE <<>>) \o TextParts(Tail(parts))

\* One message of _process_message_history: nothing for a message without
\* role or content, else the role and the content rendered as a string.
ProcessedMessage(message) ==
  IF "role" \notin DOMAIN message \/ "content" \notin DOMAIN message THEN <<>>
  ELSE
    LET content == message.content
        text ==
          CASE content.kind = "list" -> Join(<<" ">>, TextParts(content.parts))
            [] content.kind = "dict" -> StrOfDict(content.items)
            [] OTHER -> content.text
    IN <<[role |-> message.role, content |-> ContentStr(text)]>>

RECURSIVE _process_message_history(_)
_process_message_history(message_history) ==
  IF Len(message_history) = 0 THEN <<>>
  ELSE ProcessedMessage(message_history[1])
         \o _process_message_history(Tail(message_history))

\* tokenizer.apply_chat_template(messages, add_generation_prompt=True,
\* tokenize=False): the collaborator's rendering of the message list
apply_chat_template(messages) ==
  [template_of |-> messages, add_generation_prompt |-> TRUE]

\* The evidence message of an item: one system message when the context list
\* is given, reaches the item and holds a non-empty block for it.
ContextMessage(heading, contexts, idx) ==
  IF /\ contexts.kind = "list" /\ contexts.elems # <<>>
     /\ idx < Len(contexts.elems) /\ contexts.elems[idx + 1] # <<>>
  THEN <<[role |-> "system",
          content |-> ContentStr(<<heading>> \o contexts.elems[idx + 1])]>>
  ELSE <<>>

\* The user message that ends a prompt
UserMessage(query) ==
  [role |-> "user",
   content |-> ContentList(<<[type |-> "image"], [type |-> "text", text |-> query]>>)]

\* A plausible slip: the evidence messages put before the history.
PromptMessages_EvidenceFirst(query, history, image_contexts, web_contexts, idx) ==
  <<[role |-> "system", content |-> ContentStr(system_prompt)]>>
    \o ContextMessage("Information about what's in the image:\n\n", image_contexts, idx)
    \o ContextMessage("Additional information from the web:\n\n", web_contexts, idx)
    \o (IF history # <<>> THEN _process_message_history(history) ELSE <<>>)
    \o <<[role |-> "user",
          content |-> ContentList(<<[type |-> "image"],
                                    [type |-> "text", text |-> query]>>)]>>

\* The message list prepare_llm_prompts builds for item idx (0-based)
PromptMessages(query, history, image_contexts, web_contexts, idx) ==
  <<[role |-> "system", content |-> ContentStr(system_prompt)]>>
    \o (IF history # <<>> THEN _process_message_history(history) ELSE <<>>)
    \o ContextMessage("Information about what's in the image:\n\n", image_contexts, idx)
    \o ContextMessage("Additional information from the web:\n\n", web_contexts, idx)
    \o <<UserMessage(query)>>

prepare_llm_prompts(qs, imgs, histories, image_contexts, web_contexts) ==
  [i \in 1..Min(Len(qs), Min(Len(imgs), Len(histories))) |->
     [prompt |-> apply_chat_template(
                   PromptMessages(qs[i], histories[i], image_contexts, web_contexts, i - 1)),
      multi_modal_data |-> [image |-> imgs[i]]]]

\* The session id _update_session_cache takes from a history: that of the
\* first message with a "session_id" key, None without one.
RECURSIVE SessionIdOf(_)
SessionIdOf(history) ==
  IF Len(history) = 0 THEN "None"
  ELSE IF "session_id" \in DOMAIN history[1] THEN history[1].session_id
  ELSE SessionIdOf(Tail(history))

\* if not session_id: None and the empty string
Falsy(session_id) == session_id \in {"None", ""}

\* A plausible slip: no test of the id before it is used as a key.
UpdateOne_NoGuard(cache, query, response, history) ==
  IF history = <<>> THEN cache
  ELSE LET session_id == SessionIdOf(history) IN
    [k \in DOMAIN cache \cup {session_id} |->
       IF k = session_id
       THEN Append(IF k \in DOMAIN cache THEN cache[k] ELSE <<>>,
                   [query |-> query, response |-> response])
       ELSE cache[k]]

\* A plausible slip: the latest pair replaces the session's list.
UpdateOne_Overwrite(cache, query, response, history) ==
  IF history = <<>> THEN cache
  ELSE LET session_id == SessionIdOf(history) IN
    IF Falsy(session_id) THEN cache
    ELSE [k \in DOMAIN cache \cup {session_id} |->
            IF k = session_id
            THEN <<[query |-> query, response |-> response]>>
            ELSE cache[k]]

\* One iteration of the loop of _update_session_cache
UpdateOne(cache, query, response, history) ==
  IF history = <<>> THEN cache
  ELSE LET session_id == SessionIdOf(history) IN
    IF Falsy(session_id) THEN cache
    ELSE [k \in DOMAIN cache \cup {session_id} |->
            IF k = session_id
            THEN Append(IF k \in DOMAIN cache THEN cache[k] ELSE <<>>,
                        [query |-> query, response |-> response])
            ELSE cache[k]]

\* _update_session_cache: the loop over zip(queries, responses, message_histories)
RECURSIVE UpdateFrom(_, _, _, _, _)
UpdateFrom(cache, i, qs, rs, histories) ==
  IF i > Min(Len(qs), Min(Len(rs), Len(histories))) THEN cache
  ELSE UpdateFrom(UpdateOne(cache, qs[i], rs[i], histories[i]), i + 1, qs, rs, histories)

_update_session_cache(cache, qs, rs, histories) == UpdateFrom(cache, 1, qs, rs, histories)

-----------------------------------------------------------------------------
(* RAGMMAgent.batch_generate_response, step by step.  ret is the outcome of *)
(* the call: running, a returned list, or the exception that left it.       *)

Running == [kind |-> "running", value |-> <<>>]
NoCalls == [image |-> <<>>, web |-> <<>>, generate |-> 0]
EmptyCache == [k \in {} |-> <<>>]

fallback_answer == <<"I don't have an image to analyze.">>

\* A plausible slip: the fallback list sized by the (empty) image list.
FallbackResponses_PerImage(qs, imgs) == [i \in 1..Len(imgs) |-> fallback_answer]

\* Line 340: ["I don't have an image to analyze."] * len(queries)
FallbackResponses(qs, imgs) == [i \in 1..Len(qs) |-> fallback_answer]

\* A plausible slip: a failed call resets the list instead of padding it.
ImageSearchResult_ResetOnError(results, out) ==
  IF out.kind = "raise" THEN <<>> ELSE Append(results, out.value)

\* Lines 348-354: the result list after one image search call
ImageSearchResult(results, out) ==
  IF out.kind = "raise" THEN Append(results, <<>>) ELSE Append(results, out.value)

\* A plausible slip: a failed call appends nothing.
WebSearchResult_SkipOnError(results, out) ==
  IF out.kind = "raise" THEN results ELSE Append(results, out.value)

\* Lines 362-368: the result list after one web search call
WebSearchResult(results, out) ==
  IF out.kind = "raise" THEN Append(results, <<>>) ELSE Append(results, out.value)

\* Line 360: hasattr(search_pipeline, 'search_web') and
\* search_pipeline.web_index is not None
WebCapability(sp) ==
  IF ~sp.search_web THEN Return(FALSE)
  ELSE IF sp.web_index = "raises" THEN Raise("AttributeError")
  ELSE Return(sp.web_index # "None")

\* Line 374
WebContexts(results) ==
  IF results # <<>> THEN PyListOf(process_web_search_results(results)) ELSE PyNoneList

\* Lines 339-343: entry with a batch; the short circuit on missing images,
\* else the search queries.
Enter(qs, imgs, histories) ==
  /\ queries' = qs /\ images' = imgs /\ message_histories' = histories
  /\ cache0' = session_cache
  /\ calls' = NoCalls
  /\ image_search_results' = <<>> /\ web_search_results' = <<>>
  /\ prompts' = <<>> /\ outputs' = <<>> /\ responses' = <<>>
  /\ IF imgs = <<>>
     THEN /\ ret' = Return(FallbackResponses(qs, imgs))
          /\ search_queries' = <<>>
          /\ pc' = "done"
     ELSE LET sq == prepare_search_queries(qs, imgs, histories) IN
          IF sq.kind = "raise"
          THEN /\ ret' = sq /\ search_queries' = <<>> /\ pc' = "raised"
          ELSE /\ ret' = Running /\ search_queries' = sq.value
               /\ pc' = IF Min(Len(sq.value), Len(imgs)) > 0
                        THEN "image_search" ELSE "web_check"
  /\ UNCHANGED << session_cache, search_pipeline, arg >>

\* Lines 346-354: one iteration of the image search loop
ImageSearch(out) ==
  /\ pc = "image_search"
  /\ LET i == Len(calls.image) + 1 IN
       /\ calls' = [calls EXCEPT !.image = Append(@, [image |-> images[i], out |-> out])]
       /\ image_search_results' = ImageSearchResult(image_search_results, out)
       /\ pc' = IF i = Min(Len(search_queries), Len(images))
                THEN "web_check" ELSE "image_search"
  /\ UNCHANGED << queries, images, message_histories, search_queries,
                  web_search_results, prompts, outputs, responses, session_cache,
                  search_pipeline, cache0, served, arg, ret >>

\* A plausible slip: the capability test outside the try block, its failure
\* leaving the batch.
WebCheck_Propagates ==
  /\ pc = "web_check"
  /\ LET capable == WebCapability(search_pipeline) IN
       /\ pc' = IF capable.kind = "raise" THEN "raised"
                ELSE IF capable.value /\ search_queries # <<>>
                THEN "web_search" ELSE "assemble"
       /\ ret' = IF capable.kind = "raise" THEN capable ELSE ret
  /\ UNCHANGED << queries, images, message_histories, search_queries,
                  image_search_results, web_search_results, prompts, outputs,
                  responses, session_cache, search_pipeline, calls, cache0,
                  served, arg >>

\* Lines 357-360, 369-370: the capability check, once for the batch
WebCheck ==
  /\ pc = "web_check"
  /\ LET capable == WebCapability(search_pipeline) IN
       pc' = IF capable.kind = "return" /\ capable.value /\ search_queries # <<>>
             THEN "web_search" ELSE "assemble"
  /\ UNCHANGED << queries, images, message_histories, search_queries,
                  image_search_results, web_search_results, prompts, outputs,
                  responses, session_cache, search_pipeline, calls, cache0,
                  served, arg, ret >>

\* Lines 361-368: one iteration of the web search loop
WebSearch(out) ==
  /\ pc = "web_search"
  /\ LET i == Len(calls.web) + 1 IN
       /\ calls' = [calls EXCEPT
                      !.web = Append(@, [query |-> search_queries[i], out |-> out])]
       /\ web_search_results' = WebSearchResult(web_search_results, out)
       /\ pc' = IF i = Len(search_queries) THEN "assemble" ELSE "web_search"
  /\ UNCHANGED << queries, images, message_histories, search_queries,
                  image_search_results, prompts, outputs, responses, session_cache,
                  search_pipeline, cache0, served, arg, ret >>

\* Lines 373-377: the evidence blocks and the prompts
Assemble ==
  /\ pc = "assemble"
  /\ LET image_contexts == process_image_search_results(image_search_results)
         web_contexts == WebContexts(web_search_results)
     IN IF image_contexts.kind = "raise"
        THEN /\ ret' = image_contexts /\ pc' = "raised" /\ prompts' = prompts
        ELSE /\ prompts' = prepare_llm_prompts(queries, images, message_histories,
                             PyListOf(image_contexts.value), web_contexts)
             /\ pc' = "generate" /\ ret' = ret
  /\ UNCHANGED << queries, images, message_histories, search_queries,
                  image_search_results, web_search_results, outputs, responses,
                  session_cache, search_pipeline, calls, cache0, served, arg >>

\* A plausible slip: the responses collected in reverse order.
ExtractResponses_Reversed(outs) ==
  [i \in 1..Len(outs) |-> outs[Len(outs) + 1 - i].outputs[1].text]

\* Line 391: responses = [output.outputs[0].text for output in outputs]
ExtractResponses(outs) == [i \in 1..Len(outs) |-> outs[i].outputs[1].text]

\* A plausible slip: the session update placed in a finally clause, so that it
\* also runs, with no responses, when the generation call fails.
Generate_UpdateInFinally(out) ==
  /\ pc = "generate"
  /\ calls' = [calls EXCEPT !.generate = @ + 1]
  /\ IF out.kind = "raise"
     THEN /\ ret' = out /\ pc' = "raised"
          /\ outputs' = outputs /\ responses' = responses
          /\ session_cache' = _update_session_cache(session_cache, queries,
                                [i \in 1..Len(queries) |-> <<>>], message_histories)
     ELSE LET outs == [i \in 1..Len(prompts) |->
                         [prompt |-> prompts[i].prompt,
                          outputs |-> <<[text |-> out.value[i]]>>]]
          IN /\ outputs' = outs
             /\ responses' = ExtractResponses(outs)
             /\ pc' = "update" /\ ret' = ret
             /\ session_cache' = session_cache
  /\ UNCHANGED << queries, images, message_histories, search_queries,
                  image_search_results, web_search_results, prompts,
                  search_pipeline, cache0, served, arg >>

\* Lines 380-391: the one batched generation call; out is what the
\* collaborator does: an exception, or one completion text per prompt.
Generate(out) ==
  /\ pc = "generate"
  /\ calls' = [calls EXCEPT !.generate = @ + 1]
  /\ IF out.kind = "raise"
     THEN /\ ret' = out /\ pc' = "raised"
          /\ outputs' = outputs /\ responses' = responses
     ELSE LET outs == [i \in 1..Len(prompts) |->
                         [prompt |-> prompts[i].prompt,
                          outputs |-> <<[text |-> out.value[i]]>>]]
          IN /\ outputs' = outs
             /\ responses' = ExtractResponses(outs)
             /\ pc' = "update" /\ ret' = ret
  /\ UNCHANGED << queries, images, message_histories, search_queries,
                  image_search_results, web_search_results, prompts,
                  session_cache, search_pipeline, cache0, served, arg >>

\* Lines 394-396: the session update, then the return
UpdateAndReturn ==
  /\ pc = "update"
  /\ session_cache' = _update_session_cache(session_cache, queries, responses,
                                            message_histories)
  /\ ret' = Return(responses)
  /\ pc' = "done"
  /\ UNCHANGED << queries, images, message_histories, search_queries,
                  image_search_results, web_search_results, prompts, outputs,
                  responses, search_pipeline, calls, cache0, served, arg >>

-----------------------------------------------------------------------------
(* Values that stand for "not set" in a specification that does not use a   *)
(* variable.                                                                *)

NoPipeline == [search_web |-> FALSE, web_index |-> "None"]
NoArg == [id |-> PyNone, query |-> <<>>]
NoRet == [fn |-> "", out |-> Return("")]

BatchUnset ==
  /\ queries = <<>> /\ images = <<>> /\ message_histories = <<>>
  /\ search_queries = <<>> /\ image_search_results = <<>>
  /\ web_search_results = <<>> /\ prompts = <<>> /\ outputs = <<>>
  /\ responses = <<>> /\ session_cache = EmptyCache
  /\ search_pipeline = NoPipeline
  /\ calls = NoCalls /\ cache0 = EmptyCache /\ served = 0

BatchVars == << queries, images, message_histories, search_queries,
                image_search_results, web_search_results, prompts, outputs,
                responses, session_cache, search_pipeline, calls, cache0, served >>

-----------------------------------------------------------------------------
(* SpecDomain: the functions of domain_utils.py applied to one argument.    *)

\* Number of words a query of SpecDomain is made of, at most.
MaxWords == 2

\* Ids handed to the resolvers: the enumeration, its neighbours, and values
\* of the other Python types a decoded annotation can have.
DomainIds ==
  {PyInt(n) : n \in -2..14}
    \cup {PyNone, PyStr("3"), PyFloat10(25), PyFloat10(30), PyBool(TRUE), PyList}

Words ==
  { <<"c","a","r">>, <<"a","r","t">>, <<"B","a","t","t","e","r","y">>,
    <<"p","h","o","n","e">>, <<"m","u","s","e","u","m">>,
    <<"t","r","a","n","s","p","o","r","t","a","t","i","o","n">>,
    <<"s","k","y">>, <<"P","R","I","C","E">> }

\* " ".join(ws)
RECURSIVE JoinWords(_)
JoinWords(ws) ==
  IF Len(ws) = 0 THEN <<>>
  ELSE IF Len(ws) = 1 THEN ws[1]
  ELSE ws[1] \o <<" ">> \o JoinWords(Tail(ws))

DomainQueries ==
  { JoinWords(ws) : ws \in UNION { [1..n -> Words] : n \in 0..MaxWords } }

InitDomain ==
  /\ pc = "call"
  /\ arg \in {[id |-> i, query |-> <<>>] : i \in DomainIds}
            \cup {[id |-> PyNone, query |-> q] : q \in DomainQueries}
  /\ ret = NoRet
  /\ BatchUnset

GetDomainName ==
  /\ pc = "call"
  /\ ret' = [fn |-> "get_domain_name", out |-> get_domain_name(arg.id)]
  /\ pc' = "returned"
  /\ UNCHANGED << arg, BatchVars >>

GetQueryCategoryName ==
  /\ pc = "call"
  /\ ret' = [fn |-> "get_query_category_name",
             out |-> get_query_category_name(arg.id)]
  /\ pc' = "returned"
  /\ UNCHANGED << arg, BatchVars >>

GetDynamismName ==
  /\ pc = "call"
  /\ ret' = [fn |-> "get_dynamism_name", out |-> get_dynamism_name(arg.id)]
  /\ pc' = "returned"
  /\ UNCHANGED << arg, BatchVars >>

InferDomainFromQuery ==
  /\ pc = "call"
  /\ ret' = [fn |-> "infer_domain_from_query",
             out |-> Return(infer_domain_from_query(arg.query))]
  /\ pc' = "returned"
  /\ UNCHANGED << arg, BatchVars >>

NextDomain ==
  \/ GetDomainName
  \/ GetQueryCategoryName
  \/ GetDynamismName
  \/ InferDomainFromQuery

SpecDomain == InitDomain /\ [][NextDomain]_vars

\* The tag the table holds for id, when id equals one of its keys.
Resolves(table, id, out, default) ==
  IF \E k \in DOMAIN table : PyEqInt(id, k)
  THEN \E k \in DOMAIN table : PyEqInt(id, k) /\ out = Return(table[k])
  ELSE out = Return(default)

\* C7: id resolution is total: every id of an enumeration resolves to its
\* tag, and every other id (negative, too large, non-integer, None) resolves
\* to the default tag ("other", "simple", "static") without failing.
C7_ResolutionTotal ==
  pc = "returned" =>
    /\ ret.fn = "get_domain_name" =>
         Resolves(DOMAIN_MAP, arg.id, ret.out, "other")
    /\ ret.fn = "get_query_category_name" =>
         Resolves(QUERY_CATEGORY_MAP, arg.id, ret.out, "simple")
    /\ ret.fn = "get_dynamism_name" =>
         Resolves(DYNAMISM_MAP, arg.id, ret.out, "static")

\* The priority-list positions of the domains with a keyword in the query.
Matched(query) ==
  { i \in 1..Len(domain_keywords) :
      AnyKeywordIn(domain_keywords[i].keywords, StrLower(query)) }

\* C8: infer_domain_from_query is first-match-wins over the priority list:
\* a query whose keywords are those of two domains A before B yields A's tag
\* wherever the keywords stand in the text (in general the earliest-listed
\* matching domain wins), and a query matching no keyword yields "other".
C8_FirstMatchWins ==
  (pc = "returned" /\ ret.fn = "infer_domain_from_query") =>
    LET M == Matched(arg.query) IN
      /\ M = {} => ret.out = Return("other")
      /\ \A A \in M : \A B \in M :
           (A < B /\ M = {A, B}) => ret.out = Return(domain_keywords[A].domain)
      /\ \A A \in M :
           (\A B \in M : A <= B) => ret.out = Return(domain_keywords[A].domain)

\* "car art": the keyword of the later-listed domain (transportation) stands
\* first in the text, and the earlier-listed domain (art) is returned.
C8_Witness ==
  /\ pc = "returned" /\ ret.fn = "infer_domain_from_query"
  /\ arg.query = <<"c","a","r"," ","a","r","t">>
  /\ Matched(arg.query) = {5, 12}
  /\ ret.out = Return("art")

-----------------------------------------------------------------------------
(* Spec: an agent serving batches, with its two collaborators.              *)

\* Requests served over all batches, at most.
MaxRequests == 2

TurnPlain ==
  [role |-> "user", content |-> ContentStr(<<"h","e","l","l","o">>),
   session_id |-> "S1"]
TurnFood ==
  [role |-> "user", content |-> ContentDict(<<[k |-> "domain", v |-> PyInt(0)]>>),
   session_id |-> "S2"]
TurnAssistant ==
  [role |-> "assistant",
   content |-> ContentList(<<[type |-> "text", text |-> <<"o","k">>],
                             [type |-> "image"],
                             [type |-> "text", text |-> <<"g","o">>]>>)]
TurnListDomain ==
  [role |-> "user", content |-> ContentDict(<<[k |-> "domain", v |-> PyList]>>)]
TurnNoContent == [role |-> "user"]
TurnSystem == [role |-> "system", content |-> ContentStr(<<"b","r","i","e","f">>)]
TurnNoRole == [content |-> ContentStr(<<"h","m">>)]

q_red_car == <<"r","e","d"," ","c","a","r">>
q_who == <<"w","h","o","?">>

\* The requests a batch is made of: a query and the history that comes with it.
Requests ==
  { [query |-> q_red_car, history |-> <<>>],
    [query |-> q_red_car, history |-> <<TurnFood, TurnAssistant>>],
    [query |-> q_who,     history |-> <<TurnListDomain>>],
    [query |-> q_who,     history |-> <<TurnNoContent, TurnPlain, TurnNoRole>>] }

\* The image of the i-th request of a batch: an opaque handle.
ImageOf(i) == [image |-> i]

\* What the retrieval collaborator can do on an image query: fail, return a
\* hit with one entity, return a hit without entities.
ImageOutcomes ==
  { Raise("SearchError"),
    Return(<<[entities |->
               <<[entity_name |-> StrV(<<"T","o","w","e","r">>),
                  entity_attributes |->
                    DictV(<<[k |-> k_architect,
                             v |-> StrV(<<"[","[","E","i","f","f","e","l","]","]">>)]>>)]>>]>>),
    Return(<<[entities |-> <<>>]>>) }

\* What the retrieval collaborator can do on a text query: fail, return a
\* page with a snippet, return a page without one.
WebOutcomes ==
  { Raise("SearchError"),
    Return(<<[page_name |-> <<"w","i","k","i">>,
              page_snippet |-> <<"a"," ","c","a","r">>]>>),
    Return(<<[page_name |-> <<"w","i","k","i">>]>>) }

\* The retrieval collaborators an agent can be built with.
Pipelines ==
  { [search_web |-> FALSE, web_index |-> "None"],
    [search_web |-> TRUE,  web_index |-> "None"],
    [search_web |-> TRUE,  web_index |-> "index"],
    [search_web |-> TRUE,  web_index |-> "raises"] }

\* The text the generation collaborator completes the i-th prompt with: an
\* opaque string, which the agent never inspects.
Completion(i) == <<"completion ", ToString(i)>>

\* What the generation collaborator can do with n prompts.
GenerateOutcomes(n) ==
  { Raise("GenerationError"), Return([i \in 1..n |-> Completion(i)]) }

\* __init__
Init ==
  /\ pc = "idle"
  /\ search_pipeline \in Pipelines
  /\ session_cache = EmptyCache
  /\ queries = <<>> /\ images = <<>> /\ message_histories = <<>>
  /\ search_queries = <<>> /\ image_search_results = <<>>
  /\ web_search_results = <<>> /\ prompts = <<>> /\ outputs = <<>>
  /\ responses = <<>> /\ calls = NoCalls /\ cache0 = EmptyCache /\ served = 0
  /\ arg = NoArg /\ ret = Running

\* A caller hands the agent a batch of n requests, with their images or with
\* no image at all.
BatchGenerateResponse ==
  /\ pc \in {"idle", "done", "raised"}
  /\ \E n \in 0..(MaxRequests - served) :
       \E reqs \in [1..n -> Requests] :
         \E imgs \in {<<>>, [i \in 1..n |-> ImageOf(i)]} :
           /\ served' = served + n
           /\ Enter([i \in 1..n |-> reqs[i].query], imgs,
                    [i \in 1..n |-> reqs[i].history])

ImageSearchStep == \E out \in ImageOutcomes : ImageSearch(out)

WebSearchStep == \E out \in WebOutcomes : WebSearch(out)

GenerateStep == \E out \in GenerateOutcomes(Len(prompts)) : Generate(out)

Next ==
  \/ BatchGenerateResponse
  \/ ImageSearchStep
  \/ WebCheck
  \/ WebSearchStep
  \/ Assemble
  \/ GenerateStep
  \/ UpdateAndReturn

Spec == Init /\ [][Next]_vars

-----------------------------------------------------------------------------
(* Claims about batch_generate_response, under Spec.                        *)

\* The hit list the agent keeps for a call that ended as out.
HitsOf(out) == IF out.kind = "raise" THEN <<>> ELSE out.value

\* The batch went through both retrieval channels.
PastRetrieval ==
  \/ pc \in {"assemble", "generate", "update"}
  \/ pc = "done" /\ images # <<>>
  \/ pc = "raised" /\ calls.image # <<>>

\* The prompts of the batch exist.
PastAssembly ==
  \/ pc \in {"generate", "update"}
  \/ pc = "done" /\ images # <<>>
  \/ pc = "raised" /\ calls.generate > 0

\* prepare_llm_prompts has returned and its prompts are about to be handed to
\* the generation collaborator.
PromptsBuilt == pc = "generate"

\* The messages of the i-th prompt
MessagesOf(i) == prompts[i].prompt.template_of

IsWebEvidence(m) ==
  /\ m.role = "system" /\ m.content.kind = "str" /\ m.content.text # <<>>
  /\ m.content.text[1] = "Additional information from the web:\n\n"

IsImageEvidence(m) ==
  /\ m.role = "system" /\ m.content.kind = "str" /\ m.content.text # <<>>
  /\ m.content.text[1] = "Information about what's in the image:\n\n"

\* C1: a batch of N requests returns exactly N answers, and the answer at
\* index i is the completion the generation collaborator produced for the
\* prompt of request i (its image, its history, its query).
C1_OneAnswerPerRequest ==
  pc = "done" =>
    /\ ret.kind = "return"
    /\ Len(ret.value) = Len(queries)
    /\ images # <<>> =>
         /\ Len(outputs) = Len(queries) /\ Len(prompts) = Len(queries)
         /\ \A i \in 1..Len(queries) :
              /\ ret.value[i] = outputs[i].outputs[1].text
              /\ outputs[i].prompt = prompts[i].prompt
              /\ prompts[i].multi_modal_data.image = images[i]
              /\ LET m == MessagesOf(i)
                     h == _process_message_history(message_histories[i])
                 IN /\ m[Len(m)] = UserMessage(queries[i])
                    /\ SubSeq(m, 2, 1 + Len(h)) = h

C1_Witness ==
  /\ pc = "done" /\ images # <<>> /\ Len(queries) = 2
  /\ queries[1] # queries[2]
  /\ ret.kind = "return" /\ ret.value[1] # ret.value[2]

\* C2: a batch with no image at all returns the fixed fallback answer for
\* every item, and neither collaborator is called nor the session store
\* written.
C2_NoImagesFallback ==
  (pc # "idle" /\ images = <<>>) =>
    /\ pc = "done"
    /\ ret = Return([i \in 1..Len(queries) |-> fallback_answer])
    /\ calls = NoCalls
    /\ session_cache = cache0

C2_Witness ==
  /\ pc = "done" /\ images = <<>> /\ Len(queries) = 2
  /\ \E i \in 1..2 : SessionIdOf(message_histories[i]) = "S1"
  /\ ret.kind = "return" /\ Len(ret.value) = 2

\* The web context list a batch made of item j alone would get.
OwnWebContexts(j) ==
  IF calls.web # <<>> THEN WebContexts(<<HitsOf(calls.web[j].out)>>) ELSE PyNoneList

\* The prompt a batch made of item j alone builds from j's own hit lists.
OwnPrompt(j) ==
  prepare_llm_prompts(<<queries[j]>>, <<images[j]>>, <<message_histories[j]>>,
    PyListOf(process_image_search_results(<<HitsOf(calls.image[j].out)>>).value),
    OwnWebContexts(j))[1]

\* C3: a retrieval failure on item i leaves item i with an empty hit list for
\* that channel and never leaves the call; the hit lists and the prompt (with
\* its evidence blocks) of any item j depend on j's own calls only, so they
\* are what they would be had the call for i succeeded.
C3_RetrievalFailureIsolated ==
  /\ \A j \in 1..Len(image_search_results) :
       j <= Len(calls.image) /\ image_search_results[j] = HitsOf(calls.image[j].out)
  /\ \A j \in 1..Len(web_search_results) :
       j <= Len(calls.web) /\ web_search_results[j] = HitsOf(calls.web[j].out)
  /\ pc = "raised" => ret # Raise("SearchError")
  /\ PastRetrieval =>
       /\ Len(image_search_results) = Len(queries)
       /\ Len(web_search_results) \in {0, Len(queries)}
  /\ PromptsBuilt =>
       /\ Len(prompts) = Len(queries)
       /\ \A j \in 1..Len(queries) : prompts[j] = OwnPrompt(j)

C3_Witness ==
  /\ PastAssembly /\ Len(queries) = 2
  /\ calls.image[1].out.kind = "raise" /\ calls.image[2].out.kind = "return"
  /\ Len(calls.web) = 2
  /\ calls.web[1].out.kind = "return" /\ calls.web[2].out.kind = "raise"
  /\ \E k \in 1..Len(MessagesOf(2)) : IsImageEvidence(MessagesOf(2)[k])
  /\ \E k \in 1..Len(MessagesOf(1)) : IsWebEvidence(MessagesOf(1)[k])

\* C4: the session store is written only after the generation call has
\* returned the responses: until then, and when generation fails, it is what
\* it was when the batch was entered.
C4_SessionWrittenAfterGeneration ==
  /\ pc \in {"image_search", "web_check", "web_search", "assemble", "generate",
             "update", "raised"} => session_cache = cache0
  /\ session_cache # cache0 =>
       /\ pc = "done" /\ calls.generate = 1
       /\ Len(outputs) = Len(queries)
       /\ session_cache = _update_session_cache(cache0, queries,
                            ExtractResponses(outputs), message_histories)

C4_Witness ==
  /\ pc = "raised" /\ ret = Raise("GenerationError")
  /\ cache0 # EmptyCache /\ session_cache = cache0
  /\ \E i \in 1..Len(queries) : SessionIdOf(message_histories[i]) \in {"S1", "S2"}

\* The retrieval collaborator advertises the web capability.
Advertised == WebCapability(search_pipeline) = Return(TRUE)
NotAdvertised == WebCapability(search_pipeline) = Return(FALSE)

\* C9: the web channel is decided once per batch.  Without the capability no
\* text query is issued and no prompt gets a web evidence message; with it,
\* exactly one text query is issued per item, in input order, and the web
\* result list has one entry per item, empty where the query failed.
C9_WebChannelPerBatch ==
  /\ Len(calls.web) <= Len(queries)
  /\ \A i \in 1..Len(calls.web) : calls.web[i].query = search_queries[i]
  /\ NotAdvertised =>
       /\ calls.web = <<>> /\ web_search_results = <<>>
       /\ \A i \in 1..Len(prompts) : \A k \in 1..Len(MessagesOf(i)) :
            ~IsWebEvidence(MessagesOf(i)[k])
  /\ (Advertised /\ PastRetrieval) =>
       /\ Len(calls.web) = Len(queries)
       /\ Len(web_search_results) = Len(queries)
       /\ \A i \in 1..Len(queries) :
            web_search_results[i] = HitsOf(calls.web[i].out)

C9_Witness ==
  /\ pc = "generate" /\ Advertised /\ Len(queries) = 2
  /\ calls.web[1].out.kind = "raise" /\ calls.web[2].out.kind = "return"
  /\ web_search_results[1] = <<>> /\ web_search_results[2] # <<>>
  /\ \E k \in 1..Len(MessagesOf(2)) : IsWebEvidence(MessagesOf(2)[k])
  /\ \A k \in 1..Len(MessagesOf(1)) : ~IsWebEvidence(MessagesOf(1)[k])

\* The turns of a history that have a role and a content, in their order.
KeptTurns(history) ==
  SelectSeq(history, LAMBDA t : "role" \in DOMAIN t /\ "content" \in DOMAIN t)

\* A content rendered as text: a string as it is, the text parts of a list
\* joined by single spaces, a dict as its str().
FlatText(content) ==
  CASE content.kind = "str" -> content.text
    [] content.kind = "list" -> Join(<<" ">>, TextParts(content.parts))
    [] OTHER -> StrOfDict(content.items)

SanitizedTurns(kept) ==
  [k \in 1..Len(kept) |->
     [role |-> kept[k].role, content |-> ContentStr(FlatText(kept[k].content))]]

Sanitized(history) == SanitizedTurns(KeptTurns(history))

\* The evidence blocks of item i
ImageBlock(i) == ImageContext(image_search_results[i]).value
WebBlock(i) ==
  IF web_search_results = <<>> THEN <<>>
  ELSE process_web_search_results(web_search_results)[i]

\* One system message under a heading when the block is non-empty, none otherwise
EvidenceMessage(heading, block) ==
  IF block # <<>>
  THEN <<[role |-> "system", content |-> ContentStr(<<heading>> \o block)]>>
  ELSE <<>>

\* The message sequence of an item, in the order of the claim
OrderedMessages(query, san, image_block, web_block) ==
  <<[role |-> "system", content |-> ContentStr(system_prompt)]>>
    \o san
    \o EvidenceMessage("Information about what's in the image:\n\n", image_block)
    \o EvidenceMessage("Additional information from the web:\n\n", web_block)
    \o <<[role |-> "user",
          content |-> ContentList(<<[type |-> "image"],
                                    [type |-> "text", text |-> query]>>)]>>

\* C10: the messages of every prompt are, in this order: the system
\* instruction; the sanitized history turns in their order; one image
\* evidence message iff the item's image evidence block is non-empty; one web
\* evidence message iff a web evidence block exists and is non-empty; last a
\* user turn with an image reference and the original query, not the
\* enhanced one.
C10_PromptOrder ==
  PromptsBuilt =>
    \A i \in 1..Len(queries) :
      MessagesOf(i) = OrderedMessages(queries[i], Sanitized(message_histories[i]),
                                      ImageBlock(i), WebBlock(i))

\* A request whose enhanced query differs from its query, with a history of
\* two turns, both evidence messages before the user turn; and beside it a
\* request whose history loses two turns and whose hits give no evidence.
C10_Witness ==
  /\ PastAssembly /\ Len(queries) = 2
  /\ search_queries[1] # queries[1]
  /\ message_histories[1] = <<TurnFood, TurnAssistant>>
  /\ Len(MessagesOf(1)) = 6
  /\ IsImageEvidence(MessagesOf(1)[4]) /\ IsWebEvidence(MessagesOf(1)[5])
  /\ message_histories[2] = <<TurnNoContent, TurnPlain, TurnNoRole>>
  /\ image_search_results[2] # <<>> /\ web_search_results[2] # <<>>
  /\ Len(MessagesOf(2)) = 3

\* The capability test itself fails: search_web is there, reading web_index
\* raises.
CheckFails == WebCapability(search_pipeline).kind = "raise"

\* The batch has gone past the capability test.
PastCheck ==
  \/ pc \in {"web_search", "assemble", "generate", "update"}
  \/ pc = "done" /\ images # <<>>
  \/ pc = "raised" /\ Len(calls.image) = Len(search_queries) /\ calls.image # <<>>

\* C14: a failure raised by the capability test itself does not leave
\* batch_generate_response.  The batch goes on as without the capability: no
\* text query is issued, no prompt gets a web evidence message, the image
\* results stay what the image searches gave, and a batch that completes
\* returns one answer per item.
C14_CheckFailureDegrades ==
  CheckFails =>
    /\ ret # WebCapability(search_pipeline)
    /\ pc # "web_search"
    /\ calls.web = <<>> /\ web_search_results = <<>>
    /\ PastCheck =>
         /\ Len(image_search_results) = Len(queries)
         /\ \A j \in 1..Len(queries) :
              image_search_results[j] = HitsOf(calls.image[j].out)
    /\ PromptsBuilt =>
         /\ Len(prompts) = Len(queries)
         /\ \A i \in 1..Len(prompts) : \A k \in 1..Len(MessagesOf(i)) :
              ~IsWebEvidence(MessagesOf(i)[k])
    /\ (pc = "done" /\ images # <<>>) =>
         /\ ret.kind = "return"
         /\ Len(ret.value) = Len(queries)
         /\ calls.generate = 1

C14_Witness ==
  /\ CheckFails /\ pc = "done" /\ images # <<>> /\ Len(queries) = 2
  /\ ret.kind = "return" /\ Len(ret.value) = 2
  /\ calls.web = <<>>
  /\ \E j \in 1..2 : image_search_results[j] # <<>>
-----------------------------------------------------------------------------
(* SpecSession: the session store under a sequence of calls of              *)
(* _update_session_cache, each with the lists of one batch.                 *)

\* Calls of _update_session_cache, at most.
MaxUpdates == 2

TurnEmptyId == [role |-> "user", content |-> ContentStr(<<"h","i">>), session_id |-> ""]
TurnNoneId == [role |-> "user", content |-> ContentStr(<<"y","o">>), session_id |-> "None"]

r_a_car == <<"a"," ","c","a","r">>
r_unknown == <<"I"," ","d","o","n","'","t"," ","k","n","o","w">>

\* The histories an item comes with: empty, without a session id, with one,
\* with one on a later turn, with an empty or None id first, with two ids.
SessionHistories ==
  { <<>>,
    <<TurnSystem>>,
    <<TurnPlain>>,
    <<TurnSystem, TurnFood>>,
    <<TurnEmptyId, TurnPlain>>,
    <<TurnFood, TurnPlain>>,
    <<TurnNoneId>> }

\* An item of a batch: the query, the response generated for it, its history.
SessionItems ==
  { [query |-> qr[1], response |-> qr[2], history |-> h] :
      qr \in { <<q_red_car, r_a_car>>, <<q_who, r_unknown>> },
      h \in SessionHistories }

\* The batches: of one item, of two.
SessionBatches ==
  { <<a>> : a \in SessionItems } \cup { <<a, b>> : a \in SessionItems, b \in SessionItems }

InitSession ==
  /\ pc = "session"
  /\ BatchUnset
  /\ arg = NoArg
  /\ ret = Running

\* One call _update_session_cache(queries, responses, message_histories);
\* cache0 keeps the store the call started from.
UpdateSessionCache ==
  \E batch \in SessionBatches :
    /\ pc = "session"
    /\ served < MaxUpdates
    /\ queries' = [i \in 1..Len(batch) |-> batch[i].query]
    /\ responses' = [i \in 1..Len(batch) |-> batch[i].response]
    /\ message_histories' = [i \in 1..Len(batch) |-> batch[i].history]
    /\ cache0' = session_cache
    /\ session_cache' = _update_session_cache(session_cache, queries', responses',
                                              message_histories')
    /\ served' = served + 1
    /\ ret' = Return(<<>>)
    /\ UNCHANGED << pc, images, search_queries, image_search_results,
                    web_search_results, prompts, outputs, search_pipeline,
                    calls, arg >>

NextSession == UpdateSessionCache

SpecSession == InitSession /\ [][NextSession]_vars

\* A history none of whose turns carries a session identifier
CarriesNoId(history) ==
  \A k \in 1..Len(history) :
    "session_id" \notin DOMAIN history[k] \/ history[k].session_id \in {"", "None"}

\* The identifiers carried by the histories of the last call
CarriedIds ==
  UNION { { message_histories[i][k].session_id :
              k \in { j \in 1..Len(message_histories[i]) :
                        ~CarriesNoId(<<message_histories[i][j]>>) } } :
          i \in 1..Len(message_histories) }

\* C5: a session update for items whose histories carry no session identifier
\* (an empty history included) is a no-op: the call returns without raising,
\* the store is the one the call started from (no new key, every sequence
\* unchanged); and no call creates a key other than an identifier carried by
\* one of its histories.
C5_NoIdUpdateIsNoOp ==
  (pc = "session" /\ served > 0) =>
    /\ ret = Return(<<>>)
    /\ DOMAIN session_cache \subseteq DOMAIN cache0 \cup CarriedIds
    /\ (\A i \in 1..Len(message_histories) : CarriesNoId(message_histories[i]))
         => session_cache = cache0

\* update(q1, r1, h1) with h1 carrying "S1", then update(q2, r2, h2) with h2
\* carrying no id: the store holds exactly the key "S1" with the pair (q1, r1).
C5_Witness ==
  /\ pc = "session" /\ served = 2
  /\ cache0 = ("S1" :> <<[query |-> q_red_car, response |-> r_a_car]>>)
  /\ queries = <<q_who>> /\ responses = <<r_unknown>>
  /\ message_histories = << <<TurnSystem>> >>
  /\ session_cache = ("S1" :> <<[query |-> q_red_car, response |-> r_a_car]>>)

IsPrefix(s, t) == Len(s) <= Len(t) /\ SubSeq(t, 1, Len(s)) = s

\* The identifier an item's update is for: that of the first turn carrying one
RECURSIVE FirstCarriedId(_)
FirstCarriedId(history) ==
  IF history = <<>> THEN "None"
  ELSE IF ~CarriesNoId(<<Head(history)>>) THEN Head(history).session_id
  ELSE FirstCarriedId(Tail(history))

UpdatedIds ==
  { FirstCarriedId(message_histories[i]) : i \in 1..Len(message_histories) }

\* C6: session records are append-only and sessions do not interfere: over
\* every call, each identifier that was a key of the store still is one, the
\* sequence stored under it before the call is a prefix of the one stored
\* after it, and the sequence of every identifier other than those the
\* call's items are for is unchanged.
C6_AppendOnlyNoInterference ==
  (pc = "session" /\ served > 0) =>
    /\ DOMAIN cache0 \subseteq DOMAIN session_cache
    /\ \A k \in DOMAIN cache0 : IsPrefix(cache0[k], session_cache[k])
    /\ \A k \in DOMAIN session_cache :
         k \notin UpdatedIds => k \in DOMAIN cache0 /\ session_cache[k] = cache0[k]

\* Two sessions in the store, one of them growing while the other stays.
C6_Witness ==
  /\ pc = "session" /\ served = 2
  /\ DOMAIN cache0 = {"S1", "S2"}
  /\ Len(cache0["S1"]) = 1 /\ Len(session_cache["S1"]) = 2
  /\ UpdatedIds = {"S1"}
  /\ session_cache["S2"] = cache0["S2"] /\ Len(cache0["S2"]) = 1

\* The store the claim expects after the items from the i-th on: each item's
\* pair appended under the identifier of the first turn carrying one, items
\* none of whose turns carries one skipped.
RECURSIVE ClaimedStore(_, _)
ClaimedStore(cache, i) ==
  IF i > Len(message_histories) THEN cache
  ELSE LET id == FirstCarriedId(message_histories[i])
           pair == [query |-> queries[i], response |-> responses[i]]
       IN IF CarriesNoId(message_histories[i]) THEN ClaimedStore(cache, i + 1)
          ELSE ClaimedStore(
                 [k \in DOMAIN cache \cup {id} |->
                    IF k = id
                    THEN (IF k \in DOMAIN cache THEN cache[k] ELSE <<>>) \o <<pair>>
                    ELSE cache[k]],
                 i + 1)

\* C12: whenever a turn of an item's history carries a session identifier,
\* the update appends the item's (query, response) pair under the identifier
\* of the first such turn; it is a no-op only if no turn carries one.
C12_FirstCarriedIdUsed ==
  (pc = "session" /\ served > 0) => session_cache = ClaimedStore(cache0, 1)
-----------------------------------------------------------------------------
(* SpecParser: StructuredDataParser.parse_generic on attribute mappings.    *)

\* Attributes of a mapping, at most.
MaxAttrs == 2

a_links == <<"l","i","n","k","s">>
a_site == <<"s","i","t","e">>
a_city == <<"c","i","t","y">>

t_empty == <<>>
t_url == <<"h","t","t","p",":","/","/","x">>
t_url_token == <<"U","R","L","|","x">>
t_linked == <<"[","[","P","a","r","i","s","]","]">>
t_plain == <<"P","a","r","i","s">>

\* The string values of an attribute: empty, a bare URL, one with the token
\* "URL|", one with wiki markup, a plain one.
AttrStrings == { t_empty, t_url, t_url_token, t_linked, t_plain }

\* The nested mappings: of one attribute, of two.
NestedMappings ==
  { <<[k |-> a_site, v |-> StrV(t)]>> : t \in AttrStrings }
    \cup { <<[k |-> a_site, v |-> StrV(t)], [k |-> a_city, v |-> StrV(u)]>> :
             t \in AttrStrings, u \in AttrStrings }

AttrValues ==
  { StrV(t) : t \in AttrStrings }
    \cup { DictV(m) : m \in NestedMappings }
    \cup { ListV(<<t_plain, t_url>>) }

AttrKeys == { k_name, a_links, k_image }

\* The mappings handed to the formatter: distinct keys, in insertion order.
AttrMappings ==
  UNION { { d \in [1..n -> [k : AttrKeys, v : AttrValues]] :
              \A i, j \in 1..n : i # j => d[i].k # d[j].k } : n \in 0..MaxAttrs }

InitParser ==
  /\ pc = "parser"
  /\ BatchUnset
  /\ arg \in { [data |-> d] : d \in AttrMappings }
  /\ ret = Running

\* The call parse_generic(data)
ParseGeneric ==
  /\ pc = "parser"
  /\ ret' = parse_generic(arg.data)
  /\ pc' = "parsed"
  /\ UNCHANGED << arg, BatchVars >>

NextParser == ParseGeneric

SpecParser == InitParser /\ [][NextParser]_vars

\* A string value that carries no information: empty, a bare URL, or one
\* with the token "URL|".
NonInformative(t) ==
  \/ t = <<>>
  \/ (Len(t) >= 4 /\ SubSeq(t, 1, 4) = <<"h","t","t","p">>)
  \/ \E i \in 1..Len(t) : i + 3 <= Len(t) /\ SubSeq(t, i, i + 3) = <<"U","R","L","|">>

\* text holds the pieces of part, next to each other
Holds(text, part) ==
  \E i \in 0..(Len(text) - Len(part)) : SubSeq(text, i + 1, i + Len(part)) = part

\* The pieces a line of the output can follow
LineEnds == { "<Info>\n", ":\n", "\n" }

\* C11: the output of the generic formatter has no line for a top-level
\* attribute, and no line for an attribute of a nested mapping, whose string
\* value is empty, a bare URL or contains the token "URL|".
C11_SuppressedAtBothLevels ==
  (pc = "parsed" /\ ret.kind = "return") =>
    \A i \in 1..Len(arg.data) :
      LET key == arg.data[i].k
          value == arg.data[i].v
      IN /\ (value.kind = "str" /\ NonInformative(value.text)) =>
              \A nl \in LineEnds : ~Holds(ret.value, <<nl>> \o key \o <<":", " ">>)
         /\ (value.kind = "dict") =>
              \A j \in 1..Len(value.items) :
                LET v == value.items[j].v IN
                (v.kind = "str" /\ NonInformative(v.text)) =>
                  ~Holds(ret.value,
                         <<"  - ">> \o value.items[j].k \o <<":", " ">> \o v.text \o <<"\n">>)
-----------------------------------------------------------------------------
(* SpecQueries: prepare_search_queries on one request, over histories whose *)
(* turns carry domain ids.                                                  *)

\* Turns of a history, at most.
MaxTurns == 3

\* A user turn annotated with a domain id
TurnTagged(id) ==
  [role |-> "user", content |-> ContentDict(<<[k |-> "domain", v |-> PyInt(id)]>>)]

\* The domain ids of the annotations: food, shopping, other, one outside the
\* enumeration.
TaggedIds == { 0, 1, 12, 99 }

QueryTurns == { TurnTagged(id) : id \in TaggedIds } \cup { TurnAssistant, TurnSystem }

QueryHistories == UNION { [1..n -> QueryTurns] : n \in 0..MaxTurns }

InitQueries ==
  /\ pc = "queries"
  /\ queries \in { <<q_red_car>>, <<q_who>> }
  /\ images = <<ImageOf(1)>>
  /\ message_histories \in { <<h>> : h \in QueryHistories }
  /\ search_queries = <<>> /\ image_search_results = <<>>
  /\ web_search_results = <<>> /\ prompts = <<>> /\ outputs = <<>>
  /\ responses = <<>> /\ session_cache = EmptyCache
  /\ search_pipeline = NoPipeline
  /\ calls = NoCalls /\ cache0 = EmptyCache /\ served = 0
  /\ arg = NoArg /\ ret = Running

\* The call prepare_search_queries(queries, images, message_histories)
PrepareSearchQueries ==
  /\ pc = "queries"
  /\ LET sq == prepare_search_queries(queries, images, message_histories) IN
       IF sq.kind = "raise"
       THEN /\ ret' = sq /\ search_queries' = <<>>
       ELSE /\ ret' = Running /\ search_queries' = sq.value
  /\ pc' = "prepared"
  /\ UNCHANGED << queries, images, message_histories, image_search_results,
                  web_search_results, prompts, outputs, responses, session_cache,
                  search_pipeline, calls, cache0, served, arg >>

NextQueries == PrepareSearchQueries

SpecQueries == InitQueries /\ [][NextQueries]_vars

\* The tags of the domain ids of the enumeration used here
TagOf(id) == CASE id = 0 -> "food" [] id = 1 -> "shopping" [] OTHER -> "other"

\* The query prefix that goes with a tag
PrefixOf(tag) ==
  CASE tag = "food" -> <<"f","o","o","d"," ","d","i","s","h"," ">>
    [] tag = "shopping" -> <<"p","r","o","d","u","c","t"," ","i","t","e","m"," ">>
    [] tag = "transportation" ->
         <<"v","e","h","i","c","l","e"," ","t","r","a","n","s","p","o","r","t",
           "a","t","i","o","n"," ">>
    [] OTHER -> <<>>

\* The turn carries an explicit domain id
IsTagged(t) ==
  /\ "content" \in DOMAIN t /\ t.content.kind = "dict"
  /\ \E j \in 1..Len(t.content.items) : t.content.items[j].k = "domain"

IdOfTurn(t) ==
  t.content.items[CHOOSE j \in 1..Len(t.content.items) : t.content.items[j].k = "domain"].v.v

\* The positions of the turns of the request's history that carry a domain id
TaggedAt == { k \in 1..Len(message_histories[1]) : IsTagged(message_histories[1][k]) }

FirstTagged == CHOOSE k \in TaggedAt : \A l \in TaggedAt : k <= l

\* The domain the text of the query infers: "red car" holds the
\* keyword "car" of transportation, "who?" has no keyword.
InferredTag == IF queries[1] = q_red_car THEN "transportation" ELSE "other"

\* The domain ids are those of user turns the scan looks at (the even
\* positions of the history, counted from 0) and none resolves to "other".
PlainlyTagged ==
  \A k \in TaggedAt : k % 2 = 1 /\ TagOf(IdOfTurn(message_histories[1][k])) # "other"

\* C13: when several turns of the history carry an explicit domain id, the
\* domain used to enhance the query is the tag of the first such turn; text
\* inference on the query is used only when no turn carries one.
C13_FirstTaggedTurnWins ==
  (pc = "prepared" /\ PlainlyTagged) =>
    /\ ret.kind # "raise"
    /\ TaggedAt # {} =>
         search_queries[1] =
           PrefixOf(TagOf(IdOfTurn(message_histories[1][FirstTagged]))) \o queries[1]
    /\ TaggedAt = {} => search_queries[1] = PrefixOf(InferredTag) \o queries[1]

\* C15: a history whose explicit domain id resolves to "other" (12, or an id
\* outside the enumeration) is treated like a history without domain: the
\* query is enhanced with the prefix of the domain inferred from its text.
C15_OtherIsReinferred ==
  (/\ pc = "prepared" /\ TaggedAt # {}
   /\ \A k \in TaggedAt : TagOf(IdOfTurn(message_histories[1][k])) = "other") =>
    /\ ret.kind # "raise"
    /\ search_queries[1] = PrefixOf(InferredTag) \o queries[1]

\* A history that states "other", a query about a car: the enhanced query
\* carries the transportation prefix.
C15_Witness ==
  /\ pc = "prepared"
  /\ message_histories = << <<TurnTagged(12)>> >>
  /\ queries = <<q_red_car>>
  /\ search_queries[1] =
       <<"v","e","h","i","c","l","e"," ","t","r","a","n","s","p","o","r","t",
         "a","t","i","o","n"," ">> \o q_red_car
====
